---- MODULE Spec2Model ----
(***************************************************************************)
(* The streaming / caching / admission pipeline of src/main.py:            *)
(* RateLimiter, CacheManager, TelegramStreamer.stream_file and             *)
(* TelegramStreamer._save_to_cache, as asyncio tasks on one event loop.    *)
(* One action is the code a task runs from one suspension point (an await  *)
(* that really suspends, or a yield to the client) to the next.  A yield   *)
(* and the await that follows it are one suspension: nothing shared is     *)
(* touched between them.                                                   *)
(* Time is counted in whole seconds; sizes in bytes.                       *)
(***************************************************************************)
EXTENDS Integers, Sequences, FiniteSets, TLC

\* ---------------------------------------------------------------- bounds
\* Number of stream_file runs (HTTP requests) of one session; a burst
\* session (SpecBurst) receives one more.
NumRuns == 2
\* The clock stops advancing at MaxTime.
MaxTime == 3
\* The declared sizes and the cache budgets the admission test is tried on.
MaxSize == 8
MaxBudget == 13

\* ---------------------------------------------------- Config (main.py:36)
\* Env-configurable; small values so that the limits are reached.
CHUNK_SIZE == 2
MAX_CACHE_SIZE == 8
RATE_LIMIT_DELAY == 1
\* The values of MAX_CONCURRENT_DOWNLOADS (main.py:60) a session is started with.
SlotLimits == {1, 2}

Runs == 1..(NumRuns + 1)

\* The remote messages a request can name: a small document, a document of
\* half the cache budget, and a message that holds no document or video.
Messages == {"small", "big", "none"}

\* message.document or message.video
HasMedia(m) == m # "none"

\* file_obj.file_size
file_size(m) == CASE m = "small" -> 3 [] m = "big" -> 4 [] OTHER -> 0

\* The cache files of the cache directory: the one of each message with
\* media, and two files of other objects cached by an earlier session.
OldKeys == {"old1", "old2"}
Keys == {"k_small", "k_big"} \cup OldKeys

\* The order in which the directory lists its entries.
DirOrder == <<"k_big", "k_small", "old1", "old2">>

\* CacheManager.get_cache_key: one key per (channel_id, message_id, file_id).
get_cache_key(m) == IF m = "small" THEN "k_small" ELSE "k_big"

\* ----------------------------------------------------------- byte helpers
Min(a, b) == IF a < b THEN a ELSE b

\* The object's bytes: byte i of the object is the number i.
SourceBytes(m) == [i \in 1..file_size(m) |-> i]

RECURSIVE Split(_)
\* A byte sequence cut into chunks of CHUNK_SIZE, the last one maybe shorter.
Split(bytes) ==
  IF Len(bytes) = 0 THEN <<>>
  ELSE <<SubSeq(bytes, 1, Min(CHUNK_SIZE, Len(bytes)))>>
       \o Split(SubSeq(bytes, Min(CHUNK_SIZE, Len(bytes)) + 1, Len(bytes)))

\* client.stream_media(message, chunk_size=CHUNK_SIZE): the chunks the remote yields.
stream_media(m) == Split(SourceBytes(m))

RECURSIVE Concat(_)
\* The bytes of a list of chunks.
Concat(cs) == IF Len(cs) = 0 THEN <<>> ELSE Head(cs) \o Concat(Tail(cs))

\* f.read(n) at offset pos of a file holding data.
ReadAt(data, pos, n) == SubSeq(data, pos + 1, Min(pos + n, Len(data)))

\* WriteAt for a file opened in append mode: every write goes to the end.
WriteAtEnd(data, off, chunk) == data \o chunk

\* f.write(chunk) at offset off of a file holding data: a gap is zero-filled.
WriteAt(data, off, chunk) ==
  LET n == IF Len(data) > off + Len(chunk) THEN Len(data) ELSE off + Len(chunk)
  IN [i \in 1..n |->
        IF i > off /\ i <= off + Len(chunk) THEN chunk[i - off]
        ELSE IF i <= Len(data) THEN data[i] ELSE 0]

\* ------------------------------------------------------------- variables
VARIABLES
  nreq,              \* how many requests the session receives
  MAX_CONCURRENT_DOWNLOADS,  \* Config.MAX_CONCURRENT_DOWNLOADS
  clock,             \* time.time()
  active_downloads,  \* RateLimiter.active_downloads
  last_request,      \* RateLimiter.info.last_request
  pc,                \* where each stream_file run is suspended
  msg,               \* the message each run was asked for
  wakeAt,            \* the second in which the sleep of a run ends
  sent,              \* the chunks each run has yielded to its client
  chunks,            \* stream_file's local list `chunks`
  fh,                \* read_cached_file's open file: inode and offset
  save,              \* the _save_to_cache task each run created
  dir,               \* cache directory: key -> inode (0: no such file)
  idata,             \* inode -> bytes
  imtime,            \* inode -> st_mtime
  sw,                \* the cleanup_cache task
  \* history, read by the properties only
  acquired,          \* the run's acquire_download_slot returned
  released,          \* how often the run called release_download_slot
  path,              \* which branch of stream_file the run took
  outcome,           \* how the run ended
  a0,                \* active_downloads when the run began
  disturbed,         \* another request or save task acted since the run began
  served,            \* key -> when its file was last opened by read_cached_file
  swh                \* the running (or just ended) sweep: what it began with and did

vars == <<nreq, MAX_CONCURRENT_DOWNLOADS, clock, active_downloads, last_request, pc, msg, wakeAt, sent, chunks,
          fh, save, dir, idata, imtime, sw, acquired, released, path, outcome,
          a0, disturbed, served, swh>>

\* Inodes: at most one per cache file plus one per open handle.
Inos == 1..(Cardinality(Keys) + 2 * (NumRuns + 1))

NoHandle == [ino |-> 0, pos |-> 0]
NoSave == [st |-> "none", ino |-> 0, pos |-> 0]
SwIdle == [pc |-> "idle", todo |-> <<>>, files |-> <<>>, size |-> 0]

\* An inode is in use while a directory entry or an open handle names it.
InUse(i, d, f, s) ==
  \/ \E k \in Keys : d[k] = i
  \/ \E r \in Runs : f[r].ino = i \/ s[r].ino = i

\* The first inode not in use.
FreeIno(d, f, s) == CHOOSE i \in Inos : ~InUse(i, d, f, s) /\ \A j \in 1..(i - 1) : InUse(j, d, f, s)

\* An inode nobody names any more is gone.
Reclaim(data, d, f, s) == [i \in Inos |-> IF InUse(i, d, f, s) THEN data[i] ELSE <<>>]
ReclaimT(mt, d, f, s) == [i \in Inos |-> IF InUse(i, d, f, s) THEN mt[i] ELSE 0]

\* CacheManager.is_cached: the path exists.
is_cached(k) == dir[k] # 0

RECURSIVE SumSizes(_, _, _)
\* The sizes of the files that directory d holds under the keys ks, added up.
SumSizes(ks, d, data) ==
  IF Len(ks) = 0 THEN 0
  ELSE (IF d[Head(ks)] = 0 THEN 0 ELSE Len(data[d[Head(ks)]]))
       + SumSizes(Tail(ks), d, data)

\* The bytes the cache directory d holds: what the loop of lines 234-237 adds
\* up when nothing changes while it runs.
cache_bytes(d, data) == SumSizes(DirOrder, d, data)

\* No sweep is running and none has just ended.
SwhNone == [total0 |-> 0, quiet |-> TRUE, gone |-> 0, ended |-> FALSE]

\* ------------------------------------------------------------------ Init
\* RateLimiter() and the cache directory as an earlier session left it: the two
\* old files, and maybe the small document's file, which is then the oldest;
\* all are complete and older than this session.
InitWith(n) ==
  /\ nreq = n
  /\ MAX_CONCURRENT_DOWNLOADS \in SlotLimits
  /\ clock = RATE_LIMIT_DELAY + 1
  /\ active_downloads = 0
  /\ last_request = 0
  /\ pc = [r \in Runs |-> "idle"]
  /\ msg = [r \in Runs |-> "none"]
  /\ wakeAt = [r \in Runs |-> 0]
  /\ sent = [r \in Runs |-> <<>>]
  /\ chunks = [r \in Runs |-> <<>>]
  /\ fh = [r \in Runs |-> NoHandle]
  /\ save = [r \in Runs |-> NoSave]
  /\ \E pre \in BOOLEAN :
       /\ dir = [k \in Keys |-> CASE k = "old1" -> 1 [] k = "old2" -> 2
                                  [] k = "k_small" -> IF pre THEN 3 ELSE 0
                                  [] OTHER -> 0]
       /\ idata = [i \in Inos |-> IF i \in {1, 2} \/ (pre /\ i = 3)
                                  THEN SourceBytes("small") ELSE <<>>]
  /\ imtime = [i \in Inos |-> IF i \in {1, 2} THEN 1 ELSE 0]
  /\ sw = SwIdle
  /\ acquired = [r \in Runs |-> FALSE]
  /\ released = [r \in Runs |-> 0]
  /\ path = [r \in Runs |-> "none"]
  /\ outcome = [r \in Runs |-> "none"]
  /\ a0 = [r \in Runs |-> 0]
  /\ disturbed = [r \in Runs |-> FALSE]
  /\ served = [k \in Keys |-> 0]
  /\ swh = SwhNone

Init == InitWith(NumRuns)

\* A burst: one request more.
InitBurst == InitWith(NumRuns + 1)

\* --------------------------------------------------------------- history
Busy(q) == pc[q] \notin {"idle", "done"}

\* The history of a step taken by run r or by r's save task: a0 is
\* active_downloads as a run begins; a busy run is disturbed when somebody else
\* changes active_downloads or creates the cache file of its key; a sweep is no
\* longer quiet once a cache file is created or written while it runs, and a
\* sweep that has ended is forgotten.
Track(r) ==
  /\ a0' = [q \in Runs |->
              IF pc'[q] \in {"idle", "done"} THEN 0
              ELSE IF pc[q] = "idle" THEN active_downloads ELSE a0[q]]
  /\ disturbed' = [q \in Runs |->
              IF pc'[q] \in {"idle", "done"} THEN FALSE
              ELSE IF /\ q # r
                      /\ \/ active_downloads' # active_downloads
                         \/ /\ HasMedia(msg[q])
                            /\ dir[get_cache_key(msg[q])] = 0
                            /\ dir'[get_cache_key(msg[q])] # 0
                   THEN TRUE ELSE disturbed[q]]
  /\ swh' = IF sw.pc = "idle" THEN SwhNone
            ELSE IF \E k \in Keys :
                      \/ dir'[k] # dir[k]
                      \/ dir[k] # 0 /\ idata'[dir[k]] # idata[dir[k]]
                      \/ dir[k] # 0 /\ imtime'[dir[k]] # imtime[dir[k]]
                 THEN [swh EXCEPT !.quiet = FALSE]
                 ELSE swh

\* ----------------------------------------------------------- RateLimiter
\* release_download_slot without the max(0, ...).
release_download_slotNoFloor(a) == a - 1

\* release_download_slot (main.py:95-97)
release_download_slot(a) == IF a - 1 > 0 THEN a - 1 ELSE 0

\* GrantSlot with the increment done twice (once ahead of the pacing test,
\* once after it).
GrantSlotTwice(r) ==
  /\ active_downloads' = active_downloads + 2
  /\ last_request' = clock
  /\ acquired' = [acquired EXCEPT ![r] = TRUE]
  /\ pc' = [pc EXCEPT ![r] = "meta"]
  /\ wakeAt' = [wakeAt EXCEPT ![r] = 0]

\* acquire_download_slot, lines 92-93: take the slot and stamp the time.
GrantSlot(r) ==
  /\ active_downloads' = active_downloads + 1
  /\ last_request' = clock
  /\ acquired' = [acquired EXCEPT ![r] = TRUE]
  /\ pc' = [pc EXCEPT ![r] = "meta"]
  /\ wakeAt' = [wakeAt EXCEPT ![r] = 0]

\* acquire_download_slot from the test of its while loop (line 84) to its next
\* suspension (the poll sleep, the pacing sleep) or to its return.  The poll
\* sleep of 0.1 is shorter than a second: it ends before the second after this
\* one is over.
AcquireFromTop(r) ==
  IF active_downloads >= MAX_CONCURRENT_DOWNLOADS
  THEN /\ pc' = [pc EXCEPT ![r] = "poll"]
       /\ wakeAt' = [wakeAt EXCEPT ![r] = clock + 1]
       /\ UNCHANGED <<active_downloads, last_request, acquired>>
  ELSE IF clock - last_request < RATE_LIMIT_DELAY
  THEN /\ pc' = [pc EXCEPT ![r] = "pace"]
       /\ wakeAt' = [wakeAt EXCEPT ![r] = clock + (RATE_LIMIT_DELAY - (clock - last_request))]
       /\ UNCHANGED <<active_downloads, last_request, acquired>>
  ELSE GrantSlot(r)

\* ------------------------------------------------------------ stream_file
\* use_cache: the parameter's default (main.py:387).
use_cache == TRUE

\* SmallEnough with <= for <: an object of exactly half the budget is cached.
SmallEnoughInclusive(s, m) == s <= m \div 2

\* file_obj.file_size < Config.MAX_CACHE_SIZE // 2 (line 414), for a declared
\* size s and a budget m.
SmallEnough(s, m) == s < m \div 2

\* The test of line 414.
Cacheable(m) == use_cache /\ SmallEnough(file_size(m), MAX_CACHE_SIZE)

\* Finally with the release in an `except Exception` clause and after the
\* normal end: a cancellation passes it by.
FinallyExceptException(r, how) ==
  /\ active_downloads' = IF how = "cancelled" THEN active_downloads
                         ELSE release_download_slot(active_downloads)
  /\ released' = [released EXCEPT ![r] = IF how = "cancelled" THEN @ ELSE @ + 1]
  /\ pc' = [pc EXCEPT ![r] = "done"]
  /\ outcome' = [outcome EXCEPT ![r] = how]
  /\ wakeAt' = [wakeAt EXCEPT ![r] = 0]
  /\ fh' = [fh EXCEPT ![r] = NoHandle]
  /\ idata' = Reclaim(idata, dir, [fh EXCEPT ![r] = NoHandle], save)
  /\ imtime' = ReclaimT(imtime, dir, [fh EXCEPT ![r] = NoHandle], save)

\* Finally with a second release in an except clause: an upstream error
\* releases twice.
FinallyReleasesTwice(r, how) ==
  /\ active_downloads' = IF how = "error"
                         THEN release_download_slot(release_download_slot(active_downloads))
                         ELSE release_download_slot(active_downloads)
  /\ released' = [released EXCEPT ![r] = IF how = "error" THEN @ + 2 ELSE @ + 1]
  /\ pc' = [pc EXCEPT ![r] = "done"]
  /\ outcome' = [outcome EXCEPT ![r] = how]
  /\ wakeAt' = [wakeAt EXCEPT ![r] = 0]
  /\ fh' = [fh EXCEPT ![r] = NoHandle]
  /\ idata' = Reclaim(idata, dir, [fh EXCEPT ![r] = NoHandle], save)
  /\ imtime' = ReclaimT(imtime, dir, [fh EXCEPT ![r] = NoHandle], save)

\* Finally with the 404 raised ahead of the try statement: that exit does not
\* pass the release.
FinallySkips404(r, how) ==
  /\ active_downloads' = IF how = "notfound" THEN active_downloads
                         ELSE release_download_slot(active_downloads)
  /\ released' = [released EXCEPT ![r] = IF how = "notfound" THEN @ ELSE @ + 1]
  /\ pc' = [pc EXCEPT ![r] = "done"]
  /\ outcome' = [outcome EXCEPT ![r] = how]
  /\ wakeAt' = [wakeAt EXCEPT ![r] = 0]
  /\ fh' = [fh EXCEPT ![r] = NoHandle]
  /\ idata' = Reclaim(idata, dir, [fh EXCEPT ![r] = NoHandle], save)
  /\ imtime' = ReclaimT(imtime, dir, [fh EXCEPT ![r] = NoHandle], save)

\* The finally clause (lines 426-427) and the end of the generator, which
\* also closes the file read_cached_file holds open.
Finally(r, how) ==
  /\ active_downloads' = release_download_slot(active_downloads)
  /\ released' = [released EXCEPT ![r] = @ + 1]
  /\ pc' = [pc EXCEPT ![r] = "done"]
  /\ outcome' = [outcome EXCEPT ![r] = how]
  /\ wakeAt' = [wakeAt EXCEPT ![r] = 0]
  /\ fh' = [fh EXCEPT ![r] = NoHandle]
  /\ idata' = Reclaim(idata, dir, [fh EXCEPT ![r] = NoHandle], save)
  /\ imtime' = ReclaimT(imtime, dir, [fh EXCEPT ![r] = NoHandle], save)

\* SaveOnExit with create_task moved into the finally clause: the chunks
\* gathered so far are saved however the run ends.
SaveOnExitAlways(r, how) ==
  IF path[r] = "miss" /\ Cacheable(msg[r])
  THEN [st |-> "sched", ino |-> 0, pos |-> 0]
  ELSE save[r]

\* The save task a run leaves behind when it ends: asyncio.create_task is
\* reached only when the loop of line 416 ended with the stream (line 421).
SaveOnExit(r, how) ==
  IF how = "ok" /\ path[r] = "miss" /\ Cacheable(msg[r])
  THEN [st |-> "sched", ino |-> 0, pos |-> 0]
  ELSE save[r]

\* A request arrives: stream_file starts and runs into acquire_download_slot.
\* Runs are numbered in the order they start.
Start(r) ==
  /\ pc[r] = "idle"
  /\ r <= nreq
  /\ \A q \in 1..(r - 1) : pc[q] # "idle"
  /\ \E m \in Messages : msg' = [msg EXCEPT ![r] = m]
  /\ AcquireFromTop(r)
  /\ UNCHANGED <<nreq, served, MAX_CONCURRENT_DOWNLOADS, clock, sent, chunks, fh, save, dir, idata, imtime, sw,
                 released, path, outcome>>
  /\ Track(r)

\* asyncio.sleep(0.1) of line 85 is over: the loop tests again.
PollWake(r) ==
  /\ pc[r] = "poll"
  /\ AcquireFromTop(r)
  /\ UNCHANGED <<nreq, served, MAX_CONCURRENT_DOWNLOADS, clock, msg, sent, chunks, fh, save, dir, idata, imtime, sw,
                 released, path, outcome>>
  /\ Track(r)

\* The pacing sleep of line 90 is over: lines 92-93 run without a new test.
PaceWake(r) ==
  /\ pc[r] = "pace"
  /\ clock >= wakeAt[r]
  /\ GrantSlot(r)
  /\ UNCHANGED <<nreq, served, MAX_CONCURRENT_DOWNLOADS, clock, msg, sent, chunks, fh, save, dir, idata, imtime, sw,
                 released, path, outcome>>
  /\ Track(r)

\* get_messages returned (line 392): 404, cache hit or cache miss (393-407).
MetaStep(r) ==
  /\ pc[r] = "meta"
  /\ IF ~HasMedia(msg[r])
     THEN /\ path' = [path EXCEPT ![r] = "notfound"]
          /\ Finally(r, "notfound")
     ELSE /\ path' = [path EXCEPT ![r] =
                IF use_cache /\ is_cached(get_cache_key(msg[r])) THEN "hit" ELSE "miss"]
          /\ pc' = [pc EXCEPT ![r] =
                IF use_cache /\ is_cached(get_cache_key(msg[r])) THEN "open" ELSE "fetch"]
          /\ UNCHANGED <<active_downloads, released, outcome, wakeAt, fh, idata, imtime>>
  /\ UNCHANGED <<nreq, served, MAX_CONCURRENT_DOWNLOADS, clock, last_request, msg, sent, chunks, save, dir, sw, acquired>>
  /\ Track(r)

\* read_cached_file: aiofiles.open(cache_file, 'rb') (line 222).
OpenStep(r) ==
  /\ pc[r] = "open"
  /\ IF dir[get_cache_key(msg[r])] = 0
     THEN /\ Finally(r, "error")
          /\ UNCHANGED served
     ELSE /\ fh' = [fh EXCEPT ![r] = [ino |-> dir[get_cache_key(msg[r])], pos |-> 0]]
          /\ pc' = [pc EXCEPT ![r] = "read"]
          /\ served' = [served EXCEPT ![get_cache_key(msg[r])] = clock]
          /\ UNCHANGED <<active_downloads, released, outcome, wakeAt, idata, imtime>>
  /\ UNCHANGED <<nreq, MAX_CONCURRENT_DOWNLOADS, clock, last_request, msg, sent, chunks, save, dir, sw, acquired, path>>
  /\ Track(r)

\* read_cached_file: one f.read(CHUNK_SIZE) and its yield (lines 223-227).
ReadStep(r) ==
  /\ pc[r] = "read"
  /\ LET c == ReadAt(idata[fh[r].ino], fh[r].pos, CHUNK_SIZE) IN
       IF c = <<>>
       THEN /\ Finally(r, "ok")
            /\ UNCHANGED sent
       ELSE /\ sent' = [sent EXCEPT ![r] = Append(@, c)]
            /\ fh' = [fh EXCEPT ![r].pos = @ + Len(c)]
            /\ UNCHANGED <<active_downloads, released, outcome, wakeAt, pc, idata, imtime>>
  /\ UNCHANGED <<nreq, served, MAX_CONCURRENT_DOWNLOADS, clock, last_request, msg, chunks, save, dir, sw, acquired, path>>
  /\ Track(r)

\* telegram_stream: the next chunk of stream_media, or its end (lines 409-424).
FetchStep(r) ==
  /\ pc[r] = "fetch"
  /\ LET s == stream_media(msg[r])
         n == Len(sent[r])
     IN IF n < Len(s)
        THEN /\ sent' = [sent EXCEPT ![r] = Append(@, s[n + 1])]
             /\ chunks' = [chunks EXCEPT ![r] =
                             IF Cacheable(msg[r]) THEN Append(@, s[n + 1]) ELSE @]
             /\ UNCHANGED <<active_downloads, released, outcome, wakeAt, pc, fh,
                            idata, imtime, save>>
        ELSE /\ save' = [save EXCEPT ![r] = SaveOnExit(r, "ok")]
             /\ Finally(r, "ok")
             /\ UNCHANGED <<sent, chunks>>
  /\ UNCHANGED <<nreq, served, MAX_CONCURRENT_DOWNLOADS, clock, last_request, msg, dir, sw, acquired, path>>
  /\ Track(r)

\* FetchError with the exception caught around the loop and the stream tried
\* again: the run notes the failure and goes on fetching.
FetchErrorRetries(r) ==
  /\ pc[r] = "fetch"
  /\ outcome' = [outcome EXCEPT ![r] = "error"]
  /\ UNCHANGED <<nreq, served, MAX_CONCURRENT_DOWNLOADS, clock, active_downloads, last_request, pc, msg, wakeAt,
                 sent, chunks, fh, save, dir, idata, imtime, sw, acquired, released, path>>
  /\ Track(r)

\* stream_media raises while the run waits for a chunk.
FetchError(r) ==
  /\ pc[r] = "fetch"
  /\ save' = [save EXCEPT ![r] = SaveOnExit(r, "error")]
  /\ Finally(r, "error")
  /\ UNCHANGED <<nreq, served, MAX_CONCURRENT_DOWNLOADS, clock, last_request, msg, sent, chunks, dir, sw, acquired, path>>
  /\ Track(r)

\* The client disconnects: the run is cancelled where it is suspended.
Cancel(r) ==
  /\ Busy(r)
  /\ save' = [save EXCEPT ![r] = SaveOnExit(r, "cancelled")]
  /\ Finally(r, "cancelled")
  /\ UNCHANGED <<nreq, served, MAX_CONCURRENT_DOWNLOADS, clock, last_request, msg, sent, chunks, dir, sw, acquired, path>>
  /\ Track(r)

\* --------------------------------------------------------- _save_to_cache
\* aiofiles.open(cache_file, 'wb') (line 433): the file is created, or
\* truncated where it exists.
SaveOpen(r) ==
  /\ save[r].st = "sched"
  /\ LET k == get_cache_key(msg[r])
         i == IF dir[k] = 0 THEN FreeIno(dir, fh, save) ELSE dir[k]
         empty == Len(chunks[r]) = 0
         s2 == [save EXCEPT ![r] = IF empty THEN [st |-> "done", ino |-> 0, pos |-> 0]
                                   ELSE [st |-> "writing", ino |-> i, pos |-> 0]]
     IN /\ dir' = [dir EXCEPT ![k] = i]
        /\ save' = s2
        /\ idata' = [idata EXCEPT ![i] = <<>>]
        /\ imtime' = [imtime EXCEPT ![i] = clock]
  /\ UNCHANGED <<nreq, served, MAX_CONCURRENT_DOWNLOADS, clock, active_downloads, last_request, pc, msg, wakeAt, sent,
                 chunks, fh, sw, acquired, released, path, outcome>>
  /\ Track(r)

\* One f.write(chunk) of the loop of lines 434-435; after the last one the
\* file is closed.
SaveWrite(r) ==
  /\ save[r].st = "writing"
  /\ LET i == save[r].ino
         n == save[r].pos
         off == Len(Concat(SubSeq(chunks[r], 1, n)))
         last == n + 1 = Len(chunks[r])
         s2 == [save EXCEPT ![r] = IF last THEN [st |-> "done", ino |-> 0, pos |-> 0]
                                   ELSE [st |-> "writing", ino |-> i, pos |-> n + 1]]
     IN /\ save' = s2
        /\ idata' = Reclaim([idata EXCEPT ![i] = WriteAt(@, off, chunks[r][n + 1])],
                            dir, fh, s2)
        /\ imtime' = ReclaimT([imtime EXCEPT ![i] = clock], dir, fh, s2)
  /\ UNCHANGED <<nreq, served, MAX_CONCURRENT_DOWNLOADS, clock, active_downloads, last_request, pc, msg, wakeAt, sent,
                 chunks, fh, dir, sw, acquired, released, path, outcome>>
  /\ Track(r)

\* SaveFail without the except clause of lines 437-438 and with the task
\* awaited by stream_file: the exception ends the run.
SaveFailPropagates(r) ==
  /\ save[r].st \in {"sched", "writing"}
  /\ LET s2 == [save EXCEPT ![r] = [st |-> "failed", ino |-> 0, pos |-> 0]]
     IN /\ save' = s2
        /\ idata' = Reclaim(idata, dir, fh, s2)
        /\ imtime' = ReclaimT(imtime, dir, fh, s2)
  /\ outcome' = [outcome EXCEPT ![r] = "error"]
  /\ UNCHANGED <<nreq, served, MAX_CONCURRENT_DOWNLOADS, clock, active_downloads, last_request, pc, msg, wakeAt, sent,
                 chunks, fh, dir, sw, acquired, released, path>>
  /\ Track(r)

\* The open or a write raises (disk full, I/O error): the except clause of
\* lines 437-438 swallows it and the file stays as it is.
SaveFail(r) ==
  /\ save[r].st \in {"sched", "writing"}
  /\ LET s2 == [save EXCEPT ![r] = [st |-> "failed", ino |-> 0, pos |-> 0]]
     IN /\ save' = s2
        /\ idata' = Reclaim(idata, dir, fh, s2)
        /\ imtime' = ReclaimT(imtime, dir, fh, s2)
  /\ UNCHANGED <<nreq, served, MAX_CONCURRENT_DOWNLOADS, clock, active_downloads, last_request, pc, msg, wakeAt, sent,
                 chunks, fh, dir, sw, acquired, released, path, outcome>>
  /\ Track(r)

\* ----------------------------------------------------------- cleanup_cache
RECURSIVE InsertByMtime(_, _)
\* e placed in a list sorted by mtime, after the entries not newer than it.
InsertByMtime(e, fs) ==
  IF Len(fs) = 0 THEN <<e>>
  ELSE IF e.mtime < Head(fs).mtime THEN <<e>> \o fs
  ELSE <<Head(fs)>> \o InsertByMtime(e, Tail(fs))

RECURSIVE SortByMtime(_)
\* cache_files.sort(key=lambda x: x[1]) (line 241): stable, oldest first.
SortByMtime(fs) ==
  IF Len(fs) = 0 THEN <<>>
  ELSE InsertByMtime(fs[Len(fs)], SortByMtime(SubSeq(fs, 1, Len(fs) - 1)))

\* UnderTarget with half the budget as the target: the loop deletes on.
UnderTargetHalf(size) == 2 * size <= MAX_CACHE_SIZE

\* The test of line 244, cache_size <= MAX_CACHE_SIZE * 0.8, in integers.
UnderTarget(size) == 5 * size <= 4 * MAX_CACHE_SIZE

\* OverBudget with the target of line 244 as the threshold: no hysteresis.
OverBudgetAtTarget(size) == 5 * size > 4 * MAX_CACHE_SIZE

\* The test of line 239.
OverBudget(size) == size > MAX_CACHE_SIZE

\* What lines 239-245 do once every file is stat'ed: nothing when the cache
\* is within budget, else sort and go to the first unlink.
AfterScan(fs, sz) ==
  IF OverBudget(sz) /\ ~UnderTarget(sz)
  THEN [pc |-> "del", todo |-> <<>>, files |-> SortByMtime(fs), size |-> sz]
  ELSE SwIdle

\* The sweep begins: glob lists the directory (line 234).
SweepStart ==
  /\ sw.pc = "idle"
  /\ LET todo == SelectSeq(DirOrder, is_cached) IN
       sw' = IF Len(todo) = 0 THEN SwIdle
             ELSE [pc |-> "scan", todo |-> todo, files |-> <<>>, size |-> 0]
  /\ swh' = [total0 |-> cache_bytes(dir, idata), quiet |-> TRUE, gone |-> 0,
             ended |-> sw'.pc = "idle"]
  /\ UNCHANGED <<nreq, served, MAX_CONCURRENT_DOWNLOADS, clock, active_downloads, last_request, pc, msg, wakeAt, sent,
                 chunks, fh, save, dir, idata, imtime, acquired, released, path,
                 outcome, a0, disturbed>>

\* One aiofiles.os.stat of the loop of lines 234-237 (a file that is gone
\* makes it raise, which ends the sweep); after the last one lines 239-245
\* run up to the first unlink.
SweepStat ==
  /\ sw.pc = "scan"
  /\ LET k == Head(sw.todo) IN
       IF dir[k] = 0
       THEN sw' = SwIdle
       ELSE LET e == [key |-> k, mtime |-> imtime[dir[k]], size |-> Len(idata[dir[k]])]
                fs == Append(sw.files, e)
                sz == sw.size + e.size
                rest == Tail(sw.todo)
            IN sw' = IF Len(rest) # 0
                     THEN [sw EXCEPT !.todo = rest, !.files = fs, !.size = sz]
                     ELSE AfterScan(fs, sz)
  /\ swh' = [swh EXCEPT !.ended = sw'.pc = "idle"]
  /\ UNCHANGED <<nreq, served, MAX_CONCURRENT_DOWNLOADS, clock, active_downloads, last_request, pc, msg, wakeAt, sent,
                 chunks, fh, save, dir, idata, imtime, acquired, released, path,
                 outcome, a0, disturbed>>

\* SweepUnlink without the except clause of lines 250-251: an unlink that
\* raises ends the sweep.
SweepUnlinkFatal ==
  /\ sw.pc = "del"
  /\ \E ok \in BOOLEAN :
       LET e == Head(sw.files)
           rest == Tail(sw.files)
           sz == IF ok THEN sw.size - e.size ELSE sw.size
           d2 == IF ok THEN [dir EXCEPT ![e.key] = 0] ELSE dir
       IN /\ ok => dir[e.key] # 0
          /\ dir' = d2
          /\ idata' = Reclaim(idata, d2, fh, save)
          /\ imtime' = ReclaimT(imtime, d2, fh, save)
          /\ sw' = IF ~ok \/ Len(rest) = 0 \/ UnderTarget(sz)
                   THEN SwIdle
                   ELSE [sw EXCEPT !.files = rest, !.size = sz]
          /\ served' = IF ok THEN [served EXCEPT ![e.key] = 0] ELSE served
          /\ swh' = [swh EXCEPT !.quiet = @ /\ ok,
                                !.gone = IF ok THEN @ + 1 ELSE @,
                                !.ended = sw'.pc = "idle"]
  /\ UNCHANGED <<nreq, MAX_CONCURRENT_DOWNLOADS, clock, active_downloads, last_request, pc, msg, wakeAt, sent,
                 chunks, fh, save, acquired, released, path, outcome, a0, disturbed>>

\* One aiofiles.os.unlink of the loop of lines 243-251: it removes the
\* directory entry, or raises OSError, which is passed over; then the loop
\* goes on to its next unlink or ends.
SweepUnlink ==
  /\ sw.pc = "del"
  /\ \E ok \in BOOLEAN :
       LET e == Head(sw.files)
           rest == Tail(sw.files)
           sz == IF ok THEN sw.size - e.size ELSE sw.size
           d2 == IF ok THEN [dir EXCEPT ![e.key] = 0] ELSE dir
       IN /\ ok => dir[e.key] # 0
          /\ dir' = d2
          /\ idata' = Reclaim(idata, d2, fh, save)
          /\ imtime' = ReclaimT(imtime, d2, fh, save)
          /\ sw' = IF Len(rest) = 0 \/ UnderTarget(sz)
                   THEN SwIdle
                   ELSE [sw EXCEPT !.files = rest, !.size = sz]
          /\ served' = IF ok THEN [served EXCEPT ![e.key] = 0] ELSE served
          /\ swh' = [swh EXCEPT !.quiet = @ /\ ok,
                                !.gone = IF ok THEN @ + 1 ELSE @,
                                !.ended = sw'.pc = "idle"]
  /\ UNCHANGED <<nreq, MAX_CONCURRENT_DOWNLOADS, clock, active_downloads, last_request, pc, msg, wakeAt, sent,
                 chunks, fh, save, acquired, released, path, outcome, a0, disturbed>>

\* ------------------------------------------------------------------ time
\* No second goes by without a test by every run in the poll loop.
PollsDone == \A r \in Runs : pc[r] = "poll" => wakeAt[r] > clock

Tick ==
  /\ clock < MaxTime
  /\ PollsDone
  /\ clock' = clock + 1
  /\ UNCHANGED <<nreq, served, swh, MAX_CONCURRENT_DOWNLOADS, active_downloads, last_request, pc, msg, wakeAt, sent, chunks,
                 fh, save, dir, idata, imtime, sw, acquired, released, path,
                 outcome, a0, disturbed>>

Next ==
  \/ \E r \in Runs : Start(r)
  \/ \E r \in Runs : PollWake(r)
  \/ \E r \in Runs : PaceWake(r)
  \/ \E r \in Runs : MetaStep(r)
  \/ \E r \in Runs : OpenStep(r)
  \/ \E r \in Runs : ReadStep(r)
  \/ \E r \in Runs : FetchStep(r)
  \/ \E r \in Runs : FetchError(r)
  \/ \E r \in Runs : Cancel(r)
  \/ \E r \in Runs : SaveOpen(r)
  \/ \E r \in Runs : SaveWrite(r)
  \/ \E r \in Runs : SaveFail(r)
  \/ SweepStart
  \/ SweepStat
  \/ SweepUnlink
  \/ Tick

Spec == Init /\ [][Next]_vars

\* A burst of requests against a cache that stays as it is: no save task and
\* no sweep gets to run.
NextBurst ==
  \/ \E r \in Runs : Start(r)
  \/ \E r \in Runs : PollWake(r)
  \/ \E r \in Runs : PaceWake(r)
  \/ \E r \in Runs : MetaStep(r)
  \/ \E r \in Runs : OpenStep(r)
  \/ \E r \in Runs : ReadStep(r)
  \/ \E r \in Runs : FetchStep(r)
  \/ \E r \in Runs : FetchError(r)
  \/ \E r \in Runs : Cancel(r)
  \/ Tick

SpecBurst == InitBurst /\ [][NextBurst]_vars

\* A burst of requests and the save tasks they leave behind; no sweep runs.
NextCrowd ==
  \/ \E r \in Runs : Start(r)
  \/ \E r \in Runs : PollWake(r)
  \/ \E r \in Runs : PaceWake(r)
  \/ \E r \in Runs : MetaStep(r)
  \/ \E r \in Runs : OpenStep(r)
  \/ \E r \in Runs : ReadStep(r)
  \/ \E r \in Runs : FetchStep(r)
  \/ \E r \in Runs : FetchError(r)
  \/ \E r \in Runs : Cancel(r)
  \/ \E r \in Runs : SaveOpen(r)
  \/ \E r \in Runs : SaveWrite(r)
  \/ \E r \in Runs : SaveFail(r)
  \/ Tick

SpecCrowd == InitBurst /\ [][NextCrowd]_vars

\* ------------------------------------------------------- sustained load
\* A finished request is forgotten and its place taken by the next one to
\* arrive: requests keep coming for as long as the server runs.
Again(r) ==
  /\ pc[r] = "done"
  /\ save[r].st \notin {"sched", "writing"}
  /\ pc' = [pc EXCEPT ![r] = "idle"]
  /\ msg' = [msg EXCEPT ![r] = "none"]
  /\ sent' = [sent EXCEPT ![r] = <<>>]
  /\ chunks' = [chunks EXCEPT ![r] = <<>>]
  /\ save' = [save EXCEPT ![r] = NoSave]
  /\ acquired' = [acquired EXCEPT ![r] = FALSE]
  /\ released' = [released EXCEPT ![r] = 0]
  /\ path' = [path EXCEPT ![r] = "none"]
  /\ outcome' = [outcome EXCEPT ![r] = "none"]
  /\ UNCHANGED <<nreq, served, MAX_CONCURRENT_DOWNLOADS, clock, active_downloads, last_request, wakeAt, fh,
                 dir, idata, imtime, sw>>
  /\ Track(r)

\* Time goes on without end: once the clock shows MaxTime the origin of time
\* moves instead, and every time the rate limiter remembers is one second
\* further back (0 stands for long ago).
TickLoad ==
  /\ PollsDone
  /\ IF clock < MaxTime
     THEN /\ clock' = clock + 1
          /\ UNCHANGED <<last_request, wakeAt>>
     ELSE /\ last_request' = IF last_request > 0 THEN last_request - 1 ELSE 0
          /\ wakeAt' = [r \in Runs |-> IF wakeAt[r] > 0 THEN wakeAt[r] - 1 ELSE 0]
          /\ UNCHANGED clock
  /\ UNCHANGED <<nreq, served, swh, MAX_CONCURRENT_DOWNLOADS, active_downloads, pc, msg, sent, chunks,
                 fh, save, dir, idata, imtime, sw, acquired, released, path,
                 outcome, a0, disturbed>>

\* Requests under sustained load: clients stay connected, the remote does not
\* fail, no save task and no sweep gets to run.
NextLoad ==
  \/ \E r \in Runs : Start(r)
  \/ \E r \in Runs : PollWake(r)
  \/ \E r \in Runs : PaceWake(r)
  \/ \E r \in Runs : MetaStep(r)
  \/ \E r \in Runs : OpenStep(r)
  \/ \E r \in Runs : ReadStep(r)
  \/ \E r \in Runs : FetchStep(r)
  \/ \E r \in Runs : Again(r)
  \/ TickLoad

\* The event loop runs every task that is ready, every sleep ends, the remote
\* and the disk answer, and time passes; nothing obliges a request to arrive.
FairLoad ==
  /\ WF_vars(TickLoad)
  /\ \A r \in Runs :
       /\ WF_vars(PollWake(r))
       /\ WF_vars(PaceWake(r))
       /\ WF_vars(MetaStep(r))
       /\ WF_vars(OpenStep(r))
       /\ WF_vars(ReadStep(r))
       /\ WF_vars(FetchStep(r))

SpecLoad == Init /\ [][NextLoad]_vars /\ FairLoad

\* ================================================================ claims
\* The runs that hold a slot: back from acquire_download_slot, release_download_slot
\* not yet called.
Holding(r) == acquired[r] /\ released[r] = 0

\* When this session began: files written since have a later mtime.
SessionStart == RATE_LIMIT_DELAY + 1

\* C1: admission bound. The number of runs that have returned from
\* acquire_download_slot and not yet called release_download_slot never
\* exceeds MAX_CONCURRENT_DOWNLOADS.
C1_AdmissionBound ==
  Cardinality({r \in Runs : Holding(r)}) <= MAX_CONCURRENT_DOWNLOADS

\* C2: pacing. Whenever acquire_download_slot returns, at least RATE_LIMIT_DELAY
\* has passed since its previous return (which last_request records).
C2_Pacing ==
  [][\A r \in Runs :
       (~acquired[r] /\ acquired'[r]) => clock - last_request >= RATE_LIMIT_DELAY]_vars

\* C3: deduplication. Requests in progress at the same time for the same
\* uncached key make one stream_media invocation: no two of them are both
\* on the branch that streams from the remote.
C3_Dedup ==
  \A r1, r2 \in Runs :
    (r1 # r2 /\ Busy(r1) /\ Busy(r2) /\ msg[r1] = msg[r2])
      => ~(path[r1] = "miss" /\ path[r2] = "miss")

\* C4: no reader observes a partial object. A run for which is_cached was
\* true and whose read_cached_file ran to its end has received the whole
\* object.
C4_NoPartialRead ==
  \A r \in Runs :
    (path[r] = "hit" /\ outcome[r] = "ok") => Concat(sent[r]) = SourceBytes(msg[r])

\* C5: commit only on full success. A run that ended by an upstream
\* exception, a cancellation or a 404 has created no save task, and a cache
\* file written in this session exists only if some run for its key saw its
\* remote stream end normally.
C5_CommitOnlyOnSuccess ==
  /\ \A r \in Runs :
       outcome[r] \in {"error", "cancelled", "notfound"} => save[r].st = "none"
  /\ \A m \in {"small", "big"} :
       (is_cached(get_cache_key(m)) /\ imtime[dir[get_cache_key(m)]] >= SessionStart)
         => \E r \in Runs : msg[r] = m /\ path[r] = "miss" /\ outcome[r] = "ok"

\* C5 witness: a run for the uncached small document was cancelled after one
\* of its two chunks, and the key is still not cached.
C5_Witness ==
  \E r \in Runs :
    /\ msg[r] = "small" /\ path[r] = "miss" /\ outcome[r] = "cancelled"
    /\ Len(sent[r]) = Len(stream_media("small")) - 1
    /\ ~is_cached("k_small")

\* C6: a cache hit skips admission. A run that is served from the cache has
\* never returned from acquire_download_slot.
C6_HitSkipsAdmission ==
  \A r \in Runs : path[r] = "hit" => ~acquired[r]

\* C7: matched pairs. A run that ends while it waits inside
\* acquire_download_slot (slot poll or pacing sleep) neither calls
\* release_download_slot nor changes active_downloads.
C7_MatchedPairs ==
  [][\A r \in Runs :
       (pc[r] \in {"poll", "pace"} /\ pc'[r] = "done")
         => (released'[r] = released[r] /\ active_downloads' = active_downloads)]_vars

\* C8: exactly one release. A run whose acquire_download_slot returned never
\* releases twice, and once it has ended - by normal completion, cache hit,
\* 404, upstream exception or cancellation - it has released exactly once.
C8_ReleaseOnce ==
  \A r \in Runs :
    acquired[r] => /\ released[r] <= 1
                   /\ pc[r] = "done" => released[r] = 1

\* C8 witness: one run that held a slot ended by an upstream exception and
\* another by cancellation in mid-stream, each with its one release.
C8_Witness ==
  \E r1, r2 \in Runs :
    /\ acquired[r1] /\ outcome[r1] = "error" /\ released[r1] = 1
    /\ acquired[r2] /\ outcome[r2] = "cancelled" /\ Len(sent[r2]) > 0 /\ released[r2] = 1

\* C9: cancellation cleanup. When a run is cancelled in a cacheable remote
\* fetch and nobody else changed active_downloads or created its cache file
\* since it began, active_downloads is back at its value from before the
\* run, the run has created no save task and its key has no cache file.
C9_CancelCleanup ==
  [][\A r \in Runs :
       (/\ pc[r] = "fetch" /\ Cacheable(msg[r]) /\ ~disturbed[r]
        /\ pc'[r] = "done" /\ outcome'[r] = "cancelled")
         => /\ active_downloads' = a0[r]
            /\ save'[r].st = "none"
            /\ dir'[get_cache_key(msg[r])] = 0]_vars

\* C9 witness: another run holds a slot and stands still in its fetch; a
\* second run came later, was cancelled in its own cacheable fetch after a
\* chunk, and the slot count is the one of before and no cache file exists.
C9_Witness ==
  \E r, q \in Runs :
    /\ q < r /\ pc[q] = "fetch" /\ Holding(q)
    /\ msg[r] = "small" /\ path[r] = "miss" /\ outcome[r] = "cancelled"
    /\ Len(sent[r]) > 0
    /\ active_downloads = 1
    /\ save[r].st = "none"
    /\ ~is_cached("k_small")

\* C10: referenced-entry protection. No cache file is removed from the
\* directory while a read_cached_file session has it open.
C10_ReferencedEntryProtected ==
  [][\A k \in Keys :
       (dir[k] # 0 /\ dir'[k] = 0)
         => ~\E r \in Runs : pc[r] = "read" /\ fh[r].ino = dir[k]]_vars

\* This step removes a cache file from the directory.
Deletes == \E k \in Keys : dir[k] # 0 /\ dir'[k] = 0

\* n bytes are at most 0.8 * MAX_CACHE_SIZE.
AtTarget(n) == 5 * n <= 4 * MAX_CACHE_SIZE

\* C11: eviction convergence. In a sweep that began with more than
\* MAX_CACHE_SIZE bytes cached, in which no unlink has failed and during which
\* no cache file was created or written: a file is deleted only while the
\* cached bytes are above 0.8 * MAX_CACHE_SIZE, and when the sweep ends the
\* cached bytes are at most 0.8 * MAX_CACHE_SIZE or no cache file remains.
C11_EvictionConvergence ==
  [][(sw.pc # "idle" /\ swh.quiet /\ swh.total0 > MAX_CACHE_SIZE) =>
       /\ Deletes => ~AtTarget(cache_bytes(dir, idata))
       /\ (sw'.pc = "idle" /\ (sw.pc = "scan" \/ Deletes))
            => \/ AtTarget(cache_bytes(dir', idata'))
               \/ \A k \in Keys : dir'[k] = 0]_vars

\* C11 witness: three files of 3 bytes against a budget of 8; the sweep has
\* just ended, undisturbed, with one file deleted and 6 bytes left.
C11_Witness ==
  /\ sw.pc = "idle" /\ swh.ended /\ swh.quiet
  /\ swh.total0 = 9 /\ swh.total0 > MAX_CACHE_SIZE
  /\ swh.gone = 1
  /\ cache_bytes(dir, idata) = 6

LastAccess(k) == IF served[k] > imtime[dir[k]] THEN served[k] ELSE imtime[dir[k]]

\* C13: least recently used by last access. A sweep never deletes a file that
\* was served from the cache more recently than another file of its list was
\* last accessed, while that other file is still there (to be deleted later
\* or kept).
C13_LeastRecentlyUsed ==
  [][\A k, j \in Keys :
       (/\ sw.pc = "del" /\ dir[k] # 0 /\ dir'[k] = 0 /\ served[k] > 0
        /\ j # k /\ dir'[j] # 0
        /\ \E i \in 1..Len(sw.files) : sw.files[i].key = j)
         => ~(served[k] > LastAccess(j))]_vars

\* C14: cache-admission policy. The test of line 414 is s < m // 2, which is
\* 2s + 2 <= m; for every declared size s and budget m, even or odd, with
\* s >= m / 2 it fails; and a run for an object of at least half
\* MAX_CACHE_SIZE gathers no chunk list and creates no save task.
C14_AdmissionPolicy ==
  /\ \A s \in 0..MaxSize, m \in 0..MaxBudget :
       /\ SmallEnough(s, m) <=> 2 * s + 2 <= m
       /\ 2 * s >= m => ~SmallEnough(s, m)
  /\ \A r \in Runs :
       (HasMedia(msg[r]) /\ 2 * file_size(msg[r]) >= MAX_CACHE_SIZE)
         => (chunks[r] = <<>> /\ save[r].st = "none")

\* C14 witness: a run has streamed the whole of an object of exactly half
\* MAX_CACHE_SIZE from the remote to its client and ended with no save task.
C14_Witness ==
  \E r \in Runs :
    /\ 2 * file_size(msg[r]) = MAX_CACHE_SIZE
    /\ path[r] = "miss" /\ outcome[r] = "ok"
    /\ sent[r] = stream_media(msg[r])
    /\ chunks[r] = <<>> /\ save[r].st = "none"

\* C15: at most one cache write per key. No two _save_to_cache tasks have the
\* cache file of the same key open for writing at the same time.
C15_OneWriterPerKey ==
  \A r1, r2 \in Runs :
    (r1 # r2 /\ save[r1].st = "writing" /\ save[r2].st = "writing")
      => get_cache_key(msg[r1]) # get_cache_key(msg[r2])

\* Sequence a is the beginning of sequence b.
IsPrefix(a, b) == Len(a) <= Len(b) /\ a = SubSeq(b, 1, Len(a))

\* C16: in-order delivery. What a run has yielded to its client is a prefix
\* of the chunk sequence of the source - on the cache-hit path as well as on
\* both cache-miss paths - and the chunk list a run hands to _save_to_cache is
\* the sequence it yielded.
C16_InOrderDelivery ==
  \A r \in Runs :
    /\ IsPrefix(sent[r], stream_media(msg[r]))
    /\ save[r].st # "none" => chunks[r] = sent[r]

\* C17: a cache write failure never fails the client's stream. A run whose
\* _save_to_cache task failed has ended normally and its client has received
\* every chunk of the object.
C17_SaveFailureHarmless ==
  \A r \in Runs :
    save[r].st = "failed"
      => (pc[r] = "done" /\ outcome[r] = "ok" /\ sent[r] = stream_media(msg[r]))

\* C17 witness: the save task of a run for the small document failed after
\* the first of its two chunks; the run has ended normally with both chunks
\* delivered.
C17_Witness ==
  \E r \in Runs :
    /\ msg[r] = "small" /\ save[r].st = "failed"
    /\ is_cached("k_small") /\ idata[dir["k_small"]] = Head(stream_media("small"))
    /\ outcome[r] = "ok" /\ Len(sent[r]) = 2

\* C18: a failed cache write leaves no file. When a _save_to_cache task fails
\* after it has written some chunks, its key has no cache file afterwards.
C18_PartialFileDeleted ==
  [][\A r \in Runs :
       (save[r].st = "writing" /\ save[r].pos > 0 /\ save'[r].st = "failed")
         => dir'[get_cache_key(msg[r])] = 0]_vars

\* C19: upstream failure. A run whose remote chunk stream raised has ended
\* with that failure, has released its slot (once), has created no save task,
\* and has not started the stream again: what it yielded is a prefix of one
\* pass over the source.
C19_UpstreamFailure ==
  \A r \in Runs :
    (path[r] = "miss" /\ outcome[r] = "error")
      => /\ pc[r] = "done"
         /\ acquired[r] /\ released[r] = 1
         /\ save[r].st = "none"
         /\ IsPrefix(sent[r], stream_media(msg[r]))

\* C19 witness: the stream of the cacheable small document raised after its
\* first chunk; the run is over, its slot released, no save task, no file.
C19_Witness ==
  \E r \in Runs :
    /\ msg[r] = "small" /\ path[r] = "miss" /\ outcome[r] = "error"
    /\ Len(sent[r]) = 1 /\ Len(chunks[r]) = 1
    /\ pc[r] = "done" /\ released[r] = 1 /\ active_downloads = 0
    /\ save[r].st = "none" /\ ~is_cached("k_small")

\* C20: acquire_download_slot eventually succeeds. Under fair scheduling, with
\* every slot that is held released in the end, a run that waits in
\* acquire_download_slot (slot poll or pacing sleep) eventually returns from it.
C20_AcquireEventuallySucceeds ==
  \A r \in Runs : (pc[r] \in {"poll", "pace"}) ~> (pc[r] = "meta")

\* C21: no document or video. A run whose message holds neither has ended
\* with the 404, has yielded nothing, has fetched no chunk from the remote,
\* has created no save task, and has released the slot it acquired.
C21_NotFound ==
  \A r \in Runs :
    path[r] = "notfound"
      => /\ pc[r] = "done" /\ outcome[r] = "notfound"
         /\ sent[r] = <<>> /\ chunks[r] = <<>>
         /\ save[r].st = "none"
         /\ acquired[r] /\ released[r] = 1

\* C21 witness: a request for a message without media was answered 404
\* while nobody else held a slot, and active_downloads is back at 0.
C21_Witness ==
  \E r \in Runs :
    /\ ~HasMedia(msg[r]) /\ path[r] = "notfound" /\ outcome[r] = "notfound"
    /\ released[r] = 1
    /\ \A q \in Runs \ {r} : ~Busy(q)
    /\ active_downloads = 0

\* C22: the release is floored at zero. active_downloads is never negative,
\* and a step in which a run calls release_download_slot while
\* active_downloads is 0 leaves it at 0.
C22_ReleaseFloor ==
  [][/\ active_downloads >= 0 /\ active_downloads' >= 0
     /\ \A r \in Runs :
          (released'[r] = released[r] + 1 /\ active_downloads = 0)
            => active_downloads' = 0]_vars

\* C22 witness: two runs have released but only one of them had acquired
\* (the other was cancelled while it waited), so one release met the
\* counter at 0; the counter is 0.
C22_Witness ==
  \E r1, r2 \in Runs :
    /\ acquired[r1] /\ released[r1] = 1
    /\ ~acquired[r2] /\ released[r2] = 1 /\ outcome[r2] = "cancelled"
    /\ \A q \in Runs \ {r1, r2} : pc[q] = "idle"
    /\ active_downloads = 0

\* C23: a failed deletion is skipped. When an unlink of the sweep fails, the
\* running total stays as it was and the sweep goes on to the next-oldest
\* file of its list, or ends if there is none; and every step of the
\* deleting loop, failed or not, shortens the list, so the sweep ends.
C23_FailedUnlinkSkipped ==
  [][(sw.pc = "del" /\ sw' # sw) =>
       /\ sw'.pc = "idle" \/ Len(sw'.files) < Len(sw.files)
       /\ dir' = dir =>
            IF Len(sw.files) = 1 THEN sw'.pc = "idle"
            ELSE /\ sw'.pc = "del"
                 /\ sw'.files = Tail(sw.files)
                 /\ sw'.size = sw.size]_vars

\* C23 witness: the sweep could not unlink its oldest file, deleted the next
\* one instead and has ended: the oldest file is still there, untouched, and
\* a younger one is gone.
C23_Witness ==
  /\ sw.pc = "idle" /\ swh.ended /\ ~swh.quiet /\ swh.gone = 1
  /\ is_cached("k_small") /\ imtime[dir["k_small"]] = 0
  /\ ~is_cached("old1") /\ is_cached("old2")

\* C24: the slot counter never over-counts. active_downloads is at most the
\* number of runs that have returned from acquire_download_slot and not yet
\* called release_download_slot; so it is 0 whenever no run is in progress.
C24_NoOverCount ==
  /\ active_downloads <= Cardinality({r \in Runs : Holding(r)})
  /\ (\A r \in Runs : ~Busy(r)) => active_downloads = 0

\* C24 witness: every request of the session has been made and is over, one
\* ended by a cancellation in mid-stream and one by something else, and the
\* counter is 0.
C24_Witness ==
  /\ \A r \in Runs : r <= nreq => pc[r] = "done"
  /\ \E r1, r2 \in Runs :
       /\ acquired[r1] /\ outcome[r1] = "cancelled" /\ Len(sent[r1]) > 0
       /\ acquired[r2] /\ outcome[r2] # "cancelled"
  /\ active_downloads = 0

\* The save tasks created for key k.
SavesOf(k) == {r \in Runs : save[r].st # "none" /\ get_cache_key(msg[r]) = k}

\* C25: the file after the saves. Once every _save_to_cache task created for
\* a key has finished, none of them with an error, the key's cache file - if
\* no sweep has deleted it - holds exactly the object's bytes in source order,
\* however the tasks were interleaved.
C25_FinalFileContent ==
  \A m \in {"small", "big"} :
    LET k == get_cache_key(m) IN
      (/\ SavesOf(k) # {}
       /\ \A r \in SavesOf(k) : save[r].st = "done"
       /\ is_cached(k))
        => idata[dir[k]] = SourceBytes(m)

\* C25 witness: two save tasks for the small document have finished; they
\* ran interleaved, for a third request read the zero-filled hole they left
\* on the way; the file now holds the document's three bytes.
C25_Witness ==
  \E r1, r2, r3 \in Runs :
    /\ r1 # r2
    /\ msg[r1] = "small" /\ save[r1].st = "done"
    /\ msg[r2] = "small" /\ save[r2].st = "done"
    /\ msg[r3] = "small" /\ path[r3] = "hit" /\ Len(sent[r3]) > 0
    /\ Head(sent[r3]) = <<0, 0>>
    /\ is_cached("k_small") /\ idata[dir["k_small"]] = SourceBytes("small")

====
